---- MODULE Spec2Model ----
(***************************************************************************)
(* Model of the image-to-audio accessibility tool:                         *)
(*   - the server route  src/app/api/describe-image/route.ts  (POST),      *)
(*   - the browser page  src/app/page.tsx  (HomePage).                     *)
(* Strings are sequences of UTF-16 code units (naturals), as in JavaScript.*)
(***************************************************************************)
EXTENDS Integers, Sequences, FiniteSets, TLC

VARIABLES
    \* ---- server: one record per handler invocation of POST
    pc,            \* where each handler is suspended (its pending await)
    req,           \* the request each handler was called with
    decision,      \* what aj.protect resolved to
    description,   \* the handler's local `description`
    calls,         \* provider calls made by the handler, in order
    stages,        \* stages the handler entered, in order
    response,      \* the Response the handler returned
    \* ---- server: the limiter's token bucket for the one client key
    tokens,        \* tokens left in the bucket
    elapsed,       \* seconds since the current refill interval began
    burst,         \* statuses of the requests since one found the bucket full
    burstAge,      \* seconds since that request
    \* ---- the description/header functions applied to one vision reply
    nPc, nRaw, nDescription, nHeader, nDecoded,
    \* ---- client: HomePage
    status, audioUrl, descriptionText, errorMessage,
    audioObjectUrlRef, inputValue, attempts, liveUrls, revokedUrls

serverVars == <<pc, req, decision, description, calls, stages, response,
                tokens, elapsed, burst, burstAge>>
pureVars   == <<nPc, nRaw, nDescription, nHeader, nDecoded>>
clientVars == <<status, audioUrl, descriptionText, errorMessage,
                audioObjectUrlRef, inputValue, attempts, liveUrls, revokedUrls>>
vars == <<serverVars, pureVars, clientVars>>

(***************************************************************************)
(* Bounds of the model.                                                    *)
(***************************************************************************)
MaxLen == 3          \* longest enumerated short vision reply
MaxParts == 2        \* longest enumerated list of content parts
LongLen == 1000      \* length of the long vision replies
NHandlers == 2       \* POST invocations that can be in progress together
TickSec == 30        \* seconds that pass in one step of the clock
MaxBurst == 6        \* requests recorded after one found the bucket full
MaxAttempts == 3     \* invocations of handleFileChange in one run of the page

(***************************************************************************)
(* JavaScript strings.                                                     *)
(***************************************************************************)
Min(a, b) == IF a < b THEN a ELSE b

Repeat(c, n) == [i \in 1..n |-> c]

\* String.prototype.startsWith
StartsWith(s, prefix) ==
    /\ Len(s) >= Len(prefix)
    /\ \A i \in 1..Len(prefix) : s[i] = prefix[i]

\* WhiteSpace and LineTerminator code units, as String.prototype.trim strips them
IsWhiteSpace(c) ==
    \/ c \in {9, 10, 11, 12, 13, 32, 160, 5760, 8232, 8233, 8239, 8287, 12288, 65279}
    \/ c \in 8192..8202

RECURSIVE TrimStart(_)
TrimStart(s) ==
    IF s # <<>> /\ IsWhiteSpace(Head(s)) THEN TrimStart(Tail(s)) ELSE s

RECURSIVE TrimEnd(_)
TrimEnd(s) ==
    IF s # <<>> /\ IsWhiteSpace(s[Len(s)]) THEN TrimEnd(SubSeq(s, 1, Len(s) - 1)) ELSE s

\* String.prototype.trim
Trim(s) == TrimEnd(TrimStart(s))

\* String.prototype.slice(0, end)
Slice0(s, end) == SubSeq(s, 1, Min(Len(s), end))

\* Array.prototype.join(" ")
RECURSIVE JoinSpace(_)
JoinSpace(strs) ==
    IF strs = <<>> THEN <<>>
    ELSE IF Len(strs) = 1 THEN strs[1]
    ELSE strs[1] \o <<32>> \o JoinSpace(Tail(strs))

(***************************************************************************)
(* encodeURIComponent / decodeURIComponent (ECMAScript Encode and Decode). *)
(***************************************************************************)
IsHighSurrogate(c) == c \in 55296..56319
IsLowSurrogate(c) == c \in 56320..57343

\* A-Z a-z 0-9 - _ . ! ~ * ' ( )
IsUnescaped(c) ==
    \/ c \in 65..90 \/ c \in 97..122 \/ c \in 48..57
    \/ c \in {45, 95, 46, 33, 126, 42, 39, 40, 41}

HexDigit(d) == IF d < 10 THEN 48 + d ELSE 55 + d

PercentOctet(b) == <<37, HexDigit(b \div 16), HexDigit(b % 16)>>

Utf8Octets(cp) ==
    IF cp < 128 THEN <<cp>>
    ELSE IF cp < 2048 THEN <<192 + (cp \div 64), 128 + (cp % 64)>>
    ELSE IF cp < 65536 THEN
        <<224 + (cp \div 4096), 128 + ((cp \div 64) % 64), 128 + (cp % 64)>>
    ELSE <<240 + (cp \div 262144), 128 + ((cp \div 4096) % 64),
           128 + ((cp \div 64) % 64), 128 + (cp % 64)>>

PercentAll(octets) ==
    [i \in 1..(3 * Len(octets)) |-> PercentOctet(octets[((i - 1) \div 3) + 1])[((i - 1) % 3) + 1]]

\* the code units Encode appends for the code unit at index i: a unit already
\* consumed as the second half of a surrogate pair appends nothing
EncodeAt(s, i) ==
    LET C == s[i] IN
    IF IsUnescaped(C) THEN <<C>>
    ELSE IF IsHighSurrogate(C)
    THEN PercentAll(Utf8Octets((C - 55296) * 1024 + (s[i + 1] - 56320) + 65536))
    ELSE IF IsLowSurrogate(C) THEN <<>>
    ELSE PercentAll(Utf8Octets(C))

\* CodePointAt finds an unpaired surrogate at index i
IsUnpairedSurrogate(s, i) ==
    \/ IsHighSurrogate(s[i]) /\ ~(i < Len(s) /\ IsLowSurrogate(s[i + 1]))
    \/ IsLowSurrogate(s[i]) /\ ~(i > 1 /\ IsHighSurrogate(s[i - 1]))

RECURSIVE EncodeRange(_, _, _)
EncodeRange(s, lo, hi) ==
    IF lo > hi THEN <<>>
    ELSE IF lo = hi THEN EncodeAt(s, lo)
    ELSE EncodeRange(s, lo, (lo + hi) \div 2) \o EncodeRange(s, ((lo + hi) \div 2) + 1, hi)

\* encodeURIComponent: [ok |-> TRUE, str |-> ...], or ok = FALSE for a URIError
encodeURIComponent(s) ==
    IF \E i \in 1..Len(s) : IsUnpairedSurrogate(s, i)
    THEN [ok |-> FALSE, str |-> <<>>]
    ELSE [ok |-> TRUE, str |-> EncodeRange(s, 1, Len(s))]

IsHex(c) == c \in 48..57 \/ c \in 65..70 \/ c \in 97..102

HexValue(c) == IF c \in 48..57 THEN c - 48 ELSE IF c \in 65..70 THEN c - 55 ELSE c - 87

\* the octet written %XX at index k, or -1 when s has no %XX there
OctetAt(s, k) ==
    IF k + 2 <= Len(s) /\ s[k] = 37 /\ IsHex(s[k + 1]) /\ IsHex(s[k + 2])
    THEN 16 * HexValue(s[k + 1]) + HexValue(s[k + 2])
    ELSE -1

IsContinuation(b) == b \in 128..191

\* code units of a code point
Utf16Units(cp) ==
    IF cp < 65536 THEN <<cp>>
    ELSE <<55296 + ((cp - 65536) \div 1024), 56320 + ((cp - 65536) % 1024)>>

\* number of octets of the UTF-8 sequence led by octet b (0: b leads none)
SequenceLength(b) ==
    IF b >= 0 /\ b < 128 THEN 1
    ELSE IF b >= 192 /\ b < 224 THEN 2
    ELSE IF b >= 224 /\ b < 240 THEN 3
    ELSE IF b >= 240 /\ b < 248 THEN 4
    ELSE 0

\* index i holds a hex digit of the escape that starts one or two units before
InEscape(s, i) == (i > 1 /\ s[i - 1] = 37) \/ (i > 2 /\ s[i - 2] = 37)

\* the escape at index i continues the sequence led by an escape before it
IsContinued(s, i) ==
    \E m \in 1..3 :
        /\ i - 3 * m >= 1
        /\ SequenceLength(OctetAt(s, i - 3 * m)) > m
        /\ \A j \in 1..(m - 1) : IsContinuation(OctetAt(s, i - 3 * j))

\* the code point of the UTF-8 sequence of n escapes at index i, or -1
CodePointOf(s, i, n) ==
    LET B  == OctetAt(s, i)
        b2 == OctetAt(s, i + 3)
        b3 == OctetAt(s, i + 6)
        b4 == OctetAt(s, i + 9)
    IN  IF n = 1 THEN B
        ELSE IF n = 2 THEN
            LET cp == (B - 192) * 64 + (b2 - 128) IN
            IF IsContinuation(b2) /\ cp >= 128 THEN cp ELSE -1
        ELSE IF n = 3 THEN
            LET cp == (B - 224) * 4096 + (b2 - 128) * 64 + (b3 - 128) IN
            IF IsContinuation(b2) /\ IsContinuation(b3) /\ cp >= 2048
               /\ ~IsHighSurrogate(cp) /\ ~IsLowSurrogate(cp)
            THEN cp ELSE -1
        ELSE
            LET cp == (B - 240) * 262144 + (b2 - 128) * 4096 + (b3 - 128) * 64 + (b4 - 128) IN
            IF IsContinuation(b2) /\ IsContinuation(b3) /\ IsContinuation(b4)
               /\ cp >= 65536 /\ cp <= 1114111
            THEN cp ELSE -1

\* Decode throws a URIError for what it finds at index i
DecodeFails(s, i) ==
    /\ s[i] = 37
    /\ LET B == OctetAt(s, i) IN
        \/ B < 0
        \/ IsContinuation(B) /\ ~IsContinued(s, i)
        \/ ~IsContinuation(B) /\ IsContinued(s, i)
        \/ ~IsContinuation(B) /\ SequenceLength(B) = 0
        \/ ~IsContinuation(B) /\ SequenceLength(B) > 0
             /\ CodePointOf(s, i, SequenceLength(B)) < 0

\* the code units Decode appends for index i
DecodeAt(s, i) ==
    IF s[i] = 37
    THEN IF IsContinuation(OctetAt(s, i)) THEN <<>>
         ELSE Utf16Units(CodePointOf(s, i, SequenceLength(OctetAt(s, i))))
    ELSE IF InEscape(s, i) THEN <<>>
    ELSE <<s[i]>>

RECURSIVE DecodeRange(_, _, _)
DecodeRange(s, lo, hi) ==
    IF lo > hi THEN <<>>
    ELSE IF lo = hi THEN DecodeAt(s, lo)
    ELSE DecodeRange(s, lo, (lo + hi) \div 2) \o DecodeRange(s, ((lo + hi) \div 2) + 1, hi)

\* decodeURIComponent: [ok |-> TRUE, str |-> ...], or ok = FALSE for a URIError
decodeURIComponent(s) ==
    IF \E i \in 1..Len(s) : DecodeFails(s, i)
    THEN [ok |-> FALSE, str |-> <<>>]
    ELSE [ok |-> TRUE, str |-> DecodeRange(s, 1, Len(s))]

(***************************************************************************)
(* The description of a vision reply (route.ts, lines 141-150).            *)
(***************************************************************************)
\* "No description available."
NoDescription ==
    <<78, 111, 32, 100, 101, 115, 99, 114, 105, 112, 116, 105, 111, 110, 32,
      97, 118, 97, 105, 108, 97, 98, 108, 101, 46>>

SliceEnd == 800

\* p?.text ?? ""
PartText(p) == IF p.kind = "null" \/ ~p.hasText THEN <<>> ELSE p.text

\* the text taken from visionRes.choices[0]?.message?.content
ContentText(rawContent) ==
    IF rawContent.kind = "string" THEN rawContent.str
    ELSE IF rawContent.kind = "array"
    THEN JoinSpace([i \in 1..Len(rawContent.parts) |-> PartText(rawContent.parts[i])])
    ELSE <<>>

\* the description cut before it is trimmed
DescribeSliceFirst(rawContent) ==
    LET cut == Trim(Slice0(ContentText(rawContent), SliceEnd))
    IN  IF cut = <<>> THEN NoDescription ELSE cut

\* const description = ( ... ).trim().slice(0, 800) || "No description available."
Describe(rawContent) ==
    LET cut == Slice0(Trim(ContentText(rawContent)), SliceEnd)
    IN  IF cut = <<>> THEN NoDescription ELSE cut

(***************************************************************************)
(* Vision replies.                                                         *)
(***************************************************************************)
\* space, "a", e-acute, and the two halves of the surrogate pair of U+1F600
Alphabet == {32, 97, 233, 55357, 56832}

ShortStrings == UNION {[1..n -> Alphabet] : n \in 0..MaxLen}

LongStrings ==
    { Repeat(97, LongLen),
      <<32, 10>> \o Repeat(97, LongLen) \o <<32>>,
      Repeat(97, SliceEnd),
      Repeat(97, SliceEnd - 1) \o <<32, 98>>,
      Repeat(97, SliceEnd - 1) \o <<55357, 56832, 97>>,
      Repeat(233, LongLen) }

NullPart == [kind |-> "null", type |-> "", hasText |-> FALSE, text |-> <<>>]
Part(type, hasText, text) == [kind |-> "part", type |-> type, hasText |-> hasText, text |-> text]

Parts ==
    { NullPart,
      Part("image_url", FALSE, <<>>),
      Part("text", TRUE, <<>>),
      Part("text", TRUE, <<97>>),
      Part("text", TRUE, <<32, 98, 10>>) }

StringContent(s) == [kind |-> "string", str |-> s]
ArrayContent(ps) == [kind |-> "array", parts |-> ps]
AbsentContent == [kind |-> "absent"]

RawContents ==
    {StringContent(s) : s \in ShortStrings \cup LongStrings}
    \cup {ArrayContent(ps) : ps \in UNION {[1..n -> Parts] : n \in 0..MaxParts}}
    \cup {AbsentContent}

(***************************************************************************)
(* The description functions applied to one reply.                         *)
(***************************************************************************)
InitServerIdle ==
    /\ pc = <<>> /\ req = <<>> /\ decision = <<>> /\ description = <<>>
    /\ calls = <<>> /\ stages = <<>> /\ response = <<>>
    /\ tokens = 0 /\ elapsed = 0 /\ burst = <<>> /\ burstAge = 0

InitPureIdle ==
    /\ nPc = "off" /\ nRaw = AbsentContent /\ nDescription = <<>>
    /\ nHeader = <<>> /\ nDecoded = <<>>

InitClientIdle ==
    /\ status = "idle" /\ audioUrl = 0 /\ descriptionText = <<>> /\ errorMessage = ""
    /\ audioObjectUrlRef = 0 /\ inputValue = 0 /\ attempts = <<>>
    /\ liveUrls = {} /\ revokedUrls = {}

InitDescribe ==
    /\ nPc = "reply" /\ nRaw \in RawContents /\ nDescription = <<>>
    /\ nHeader = <<>> /\ nDecoded = <<>>
    /\ InitServerIdle /\ InitClientIdle

\* route.ts 141-150: the description is computed from the reply
Normalise ==
    /\ nPc = "reply"
    /\ nDescription' = Describe(nRaw)
    /\ nPc' = "speech"
    /\ UNCHANGED <<nRaw, nHeader, nDecoded, serverVars, clientVars>>

\* route.ts 169: the header value, or the URIError thrown for it
ComposeHeader ==
    /\ nPc = "speech"
    /\ LET enc == encodeURIComponent(nDescription) IN
        IF enc.ok THEN nHeader' = enc.str /\ nPc' = "sent"
        ELSE nHeader' = nHeader /\ nPc' = "threw"
    /\ UNCHANGED <<nRaw, nDescription, nDecoded, serverVars, clientVars>>

\* page.tsx 90-93: the client decodes the header
ClientDecode ==
    /\ nPc = "sent"
    /\ LET dec == decodeURIComponent(nHeader) IN
        IF nHeader # <<>> /\ dec.ok THEN nDecoded' = dec.str /\ nPc' = "shown"
        ELSE nDecoded' = nDecoded /\ nPc' = "clientThrew"
    /\ UNCHANGED <<nRaw, nDescription, nHeader, serverVars, clientVars>>

NextDescribe == Normalise \/ ComposeHeader \/ ClientDecode

SpecDescribe == InitDescribe /\ [][NextDescribe]_vars

(***************************************************************************)
(* Server configuration (route.ts).                                        *)
(***************************************************************************)
MAX_FILE_SIZE_BYTES == 10 * 1024 * 1024

\* tokenBucket({ refillRate: 5, interval: 60, capacity: 5 }), protect(req, { requested: 1 })
refillRate == 5
interval == 60
capacity == 5
\* a request charged two tokens
requestedTwo == 1 + 1
requested == 1

Handlers == 1..NHandlers

(***************************************************************************)
(* Requests.                                                               *)
(***************************************************************************)
\* "multipart/form-data"
MultipartPrefix ==
    <<109, 117, 108, 116, 105, 112, 97, 114, 116, 47, 102, 111, 114, 109, 45, 100, 97, 116, 97>>
\* "multipart/form-data; boundary=x"
MultipartType == MultipartPrefix \o <<59, 32, 98, 111, 117, 110, 100, 97, 114, 121, 61, 120>>
\* "application/json"
JsonType == <<97, 112, 112, 108, 105, 99, 97, 116, 105, 111, 110, 47, 106, 115, 111, 110>>
\* "image/"
ImagePrefix == <<105, 109, 97, 103, 101, 47>>
\* "image/png"
ImagePng == ImagePrefix \o <<112, 110, 103>>
\* "text/plain"
TextPlain == <<116, 101, 120, 116, 47, 112, 108, 97, 105, 110>>
\* "data:"
DataScheme == <<100, 97, 116, 97, 58>>
\* "data:image"
DataImagePrefix == DataScheme \o <<105, 109, 97, 103, 101>>
\* ";base64,"
Base64Marker == <<59, 98, 97, 115, 101, 54, 52, 44>>

\* A long string is its first code units (head) followed by payloadLen base64
\* digits "A": the payload of a data URL is kept by its length only.
Text(head, payloadLen) == [head |-> head, payloadLen |-> payloadLen]

TextLen(x) == Len(x.head) + x.payloadLen

CharAt(x, i) == IF i <= Len(x.head) THEN x.head[i] ELSE 65

\* String.prototype.startsWith on such a string
TextStartsWith(x, prefix) ==
    /\ TextLen(x) >= Len(prefix)
    /\ \A i \in 1..Len(prefix) : CharAt(x, i) = prefix[i]

\* length of buffer.toString("base64") of n bytes
Base64Len(n) == 4 * ((n + 2) \div 3)

\* bytes that a base64 text of n digits (padding apart) decodes to
Base64Bytes(n) == (n * 3) \div 4

\* the value of formData.get("file")
NoFile == [kind |-> "absent", type |-> <<>>, size |-> 0]
TextField == [kind |-> "string", type |-> <<>>, size |-> 0]
FileOf(type, size) == [kind |-> "file", type |-> type, size |-> size]

\* the value of json?.imageBase64
Undefined == [kind |-> "undefined", text |-> Text(<<>>, 0)]
NumberValue == [kind |-> "number", text |-> Text(<<>>, 0)]
StringValue(x) == [kind |-> "string", text |-> x]

FormBody(file) == [kind |-> "form", file |-> file, imageBase64 |-> Undefined]
JsonBody(value) == [kind |-> "json", file |-> NoFile, imageBase64 |-> value]
\* a body that is neither well-formed multipart nor JSON
GarbageBody == [kind |-> "garbage", file |-> NoFile, imageBase64 |-> Undefined]

Request(contentType, body) == [contentType |-> contentType, body |-> body]

SmallSize == 2 * 1024 * 1024

\* "data:image/png;base64," followed by the base64 of n bytes
PngDataUrl(n) == Text(DataScheme \o ImagePng \o Base64Marker, Base64Len(n))

PlainRequest == Request(MultipartType, FormBody(FileOf(ImagePng, SmallSize)))

MultipartRequests ==
    { Request(MultipartType, FormBody(f)) :
        f \in { NoFile, TextField,
                FileOf(ImagePng, SmallSize),
                FileOf(ImagePng, MAX_FILE_SIZE_BYTES),
                FileOf(ImagePng, MAX_FILE_SIZE_BYTES + 1),
                FileOf(TextPlain, SmallSize),
                FileOf(<<>>, SmallSize) } }
    \cup { Request(MultipartType, GarbageBody) }

JsonRequests ==
    { Request(JsonType, JsonBody(v)) :
        v \in { Undefined, NumberValue,
                \* "not-a-data-url"
                StringValue(Text(<<110, 111, 116, 45, 97, 45, 100, 97, 116, 97, 45, 117, 114, 108>>, 0)),
                StringValue(PngDataUrl(SmallSize)),
                StringValue(PngDataUrl(MAX_FILE_SIZE_BYTES + 1)),
                \* "data:imagination"
                StringValue(Text(DataImagePrefix \o <<105, 110, 97, 116, 105, 111, 110>>, 0)),
                \* "data:image/png," and a payload: no ";base64" marker
                StringValue(Text(DataScheme \o ImagePng \o <<44>>, 8)),
                \* "data:text/plain;base64," and a payload
                StringValue(Text(DataScheme \o TextPlain \o Base64Marker, 8)) } }
    \cup { Request(JsonType, GarbageBody),
           Request(<<>>, JsonBody(StringValue(PngDataUrl(SmallSize)))),
           Request(<<>>, FormBody(FileOf(ImagePng, SmallSize))) }

Requests == MultipartRequests \cup JsonRequests

(***************************************************************************)
(* extractImageDataUrl (route.ts 48-77).                                   *)
(***************************************************************************)
NullUrl == [kind |-> "null", url |-> Text(<<>>, 0)]
ThrownUrl == [kind |-> "throw", url |-> Text(<<>>, 0)]
Url(x) == [kind |-> "url", url |-> x]

\* the multipart branch without the type check of line 56
ExtractMultipartAnyType(body) ==
    IF body.kind # "form" THEN ThrownUrl
    ELSE LET file == body.file IN
        IF file.kind # "file" THEN NullUrl
        ELSE IF file.size > MAX_FILE_SIZE_BYTES THEN NullUrl
        ELSE LET mime == IF file.type = <<>> THEN ImagePng ELSE file.type
             IN  Url(Text(DataScheme \o mime \o Base64Marker, Base64Len(file.size)))

\* lines 52-63, once req.formData() has settled
ExtractMultipart(body) ==
    IF body.kind # "form" THEN ThrownUrl
    ELSE LET file == body.file IN
        IF file.kind # "file" THEN NullUrl
        ELSE IF ~StartsWith(file.type, ImagePrefix) THEN NullUrl
        ELSE IF file.size > MAX_FILE_SIZE_BYTES THEN NullUrl
        ELSE LET mime == IF file.type = <<>> THEN ImagePng ELSE file.type
             IN  Url(Text(DataScheme \o mime \o Base64Marker, Base64Len(file.size)))

\* lines 66-76, once req.json() has settled
ExtractJson(body) ==
    IF body.kind # "json" THEN NullUrl
    ELSE LET imageBase64 == body.imageBase64 IN
        IF imageBase64.kind # "string" THEN NullUrl
        ELSE IF ~TextStartsWith(imageBase64.text, DataImagePrefix) THEN NullUrl
        ELSE Url(imageBase64.text)

extractImageDataUrl(r) ==
    IF StartsWith(r.contentType, MultipartPrefix)
    THEN ExtractMultipart(r.body)
    ELSE ExtractJson(r.body)

(***************************************************************************)
(* Responses.                                                              *)
(***************************************************************************)
JsonResponse(error, code) ==
    [status |-> code, body |-> [kind |-> "json", text |-> error, bytes |-> <<>>],
     headers |-> [ContentType |-> "application/json"]]

TextResponse(text, code) ==
    [status |-> code, body |-> [kind |-> "text", text |-> text, bytes |-> <<>>],
     headers |-> [ContentType |-> "text/plain;charset=UTF-8"]]

\* lines 163-171
AudioResponse(audioBuffer, encoded) ==
    [status |-> 200, body |-> [kind |-> "bytes", text |-> "", bytes |-> audioBuffer],
     headers |-> [ContentType |-> "audio/mpeg",
                  ContentDisposition |-> "attachment; filename=description.mp3",
                  CacheControl |-> "no-store",
                  XDescriptionText |-> encoded]]

\* lines 172-175
InternalServerError == TextResponse("Internal Server Error", 500)

NoResponse == [status |-> 0, body |-> [kind |-> "none", text |-> "", bytes |-> <<>>],
               headers |-> [ContentType |-> ""]]

NoDecision == [denied |-> FALSE, reason |-> "NONE", hosting |-> FALSE, spoofed |-> FALSE]

Decision(reasons, reason, hosting, spoofed) ==
    [denied |-> reasons # {}, reason |-> reason, hosting |-> hosting, spoofed |-> spoofed]

\* the gate without the check of line 98
GateResponseNoHostingCheck(d) ==
    IF d.denied THEN
        IF d.reason = "RATE_LIMIT" THEN JsonResponse("Too Many Requests", 429)
        ELSE IF d.reason = "BOT" THEN JsonResponse("No bots allowed", 403)
        ELSE JsonResponse("Forbidden", 403)
    ELSE IF d.spoofed THEN JsonResponse("Forbidden", 403)
    ELSE NoResponse

\* the gate testing the bot reason before the rate-limit reason, with one status
GateResponseBotFirst(d) ==
    IF d.denied THEN
        IF d.reason = "BOT" THEN JsonResponse("No bots allowed", 403)
        ELSE JsonResponse("Forbidden", 403)
    ELSE IF d.hosting THEN JsonResponse("Forbidden", 403)
    ELSE IF d.spoofed THEN JsonResponse("Forbidden", 403)
    ELSE NoResponse

\* lines 86-104: the rejection the gate returns, or NoResponse when it lets the request pass
GateResponse(d) ==
    IF d.denied THEN
        IF d.reason = "RATE_LIMIT" THEN JsonResponse("Too Many Requests", 429)
        ELSE IF d.reason = "BOT" THEN JsonResponse("No bots allowed", 403)
        ELSE JsonResponse("Forbidden", 403)
    ELSE IF d.hosting THEN JsonResponse("Forbidden", 403)
    ELSE IF d.spoofed THEN JsonResponse("Forbidden", 403)
    ELSE NoResponse

(***************************************************************************)
(* The token bucket of the limiter.                                        *)
(***************************************************************************)
\* tokens in the bucket once the intervals that have passed are credited
Refilled(tok, el) == Min(capacity, tok + (el \div interval) * refillRate)

\* the bucket cannot pay for the request
Limited(tok, el) == Refilled(tok, el) < requested

\* a refill interval begins at the first withdrawal from a full bucket
IntervalAge(tok, el) == IF Refilled(tok, el) = capacity THEN 0 ELSE el % interval

(***************************************************************************)
(* POST (route.ts 82-176), one action per await.                           *)
(***************************************************************************)
InitServer ==
    /\ pc = [h \in Handlers |-> "idle"]
    /\ req = [h \in Handlers |-> PlainRequest]
    /\ decision = [h \in Handlers |-> NoDecision]
    /\ description = [h \in Handlers |-> <<>>]
    /\ calls = [h \in Handlers |-> <<>>]
    /\ stages = [h \in Handlers |-> <<>>]
    /\ response = [h \in Handlers |-> NoResponse]
    /\ tokens = capacity
    /\ elapsed = 0
    /\ burst = <<>>
    /\ burstAge = 0

bucketVars == <<tokens, elapsed, burst, burstAge>>

\* line 84: the handler is invoked and calls aj.protect
PostCall(h, r) ==
    /\ pc[h] = "idle"
    /\ \A g \in Handlers : g < h => pc[g] # "idle"
    /\ pc' = [pc EXCEPT ![h] = "protect"]
    /\ req' = [req EXCEPT ![h] = r]
    /\ stages' = [stages EXCEPT ![h] = <<"gate">>]
    /\ decision' = [decision EXCEPT ![h] = NoDecision]
    /\ description' = [description EXCEPT ![h] = <<>>]
    /\ calls' = [calls EXCEPT ![h] = <<>>]
    /\ response' = [response EXCEPT ![h] = NoResponse]
    /\ UNCHANGED <<bucketVars, pureVars, clientVars>>

\* the handler returns its response
Respond(h, r) ==
    /\ response' = [response EXCEPT ![h] = r]
    /\ pc' = [pc EXCEPT ![h] = "responded"]

\* the statuses recorded since a request found the bucket full; a request that
\* another rule denies or flags ends the record
BurstAfter(filled, other, code) ==
    IF other THEN <<>>
    ELSE IF burst # <<>> /\ burstAge < interval
    THEN (IF Len(burst) < MaxBurst THEN Append(burst, code) ELSE burst)
    ELSE IF filled = capacity THEN <<code>>
    ELSE <<>>

\* lines 84-108: the limiter evaluates the rules (shieldDeny, botDeny: the
\* verdicts of shield and detectBot; hosting, spoofed: what decision.ip and
\* decision.results show), aj.protect resolves, and the handler either returns
\* a rejection or enters extractImageDataUrl.  When several rules deny, the
\* decision carries the reason of any one of them, and the bucket may or may
\* not have been charged.
ProtectResolve(h, shieldDeny, botDeny, hosting, spoofed) ==
    /\ pc[h] = "protect"
    /\ LET filled == Refilled(tokens, elapsed)
           limited == Limited(tokens, elapsed)
           reasons == (IF shieldDeny THEN {"SHIELD"} ELSE {})
                      \cup (IF botDeny THEN {"BOT"} ELSE {})
                      \cup (IF limited THEN {"RATE_LIMIT"} ELSE {})
       IN  \E reason \in (IF reasons = {} THEN {"NONE"} ELSE reasons),
              charge \in (IF limited THEN {FALSE} ELSE IF reasons = {} THEN {TRUE} ELSE BOOLEAN) :
            LET d == Decision(reasons, reason, hosting, spoofed)
                rejection == GateResponse(d)
                other == shieldDeny \/ botDeny \/ hosting \/ spoofed
                newBurst == BurstAfter(filled, other, rejection.status)
            IN  /\ decision' = [decision EXCEPT ![h] = d]
                /\ tokens' = IF charge THEN filled - requested ELSE filled
                /\ elapsed' = IntervalAge(tokens, elapsed)
                /\ burst' = newBurst
                /\ burstAge' = IF Len(newBurst) = 1 THEN 0 ELSE burstAge
                /\ IF rejection.status # 0
                   THEN /\ Respond(h, rejection)
                        /\ stages' = [stages EXCEPT ![h] = Append(@, "respond")]
                   ELSE /\ pc' = [pc EXCEPT ![h] = "body"]
                        /\ stages' = [stages EXCEPT ![h] = Append(@, "extract")]
                        /\ UNCHANGED response
    /\ UNCHANGED <<req, description, calls, pureVars, clientVars>>

\* line 84: aj.protect rejects; the await is outside the try block
ProtectReject(h) ==
    /\ pc[h] = "protect"
    /\ pc' = [pc EXCEPT ![h] = "unhandled"]
    /\ UNCHANGED <<req, decision, description, calls, stages, response,
                   bucketVars, pureVars, clientVars>>

VisionCall(url) == [api |-> "vision", url |-> url, input |-> <<>>]
SpeechCall(input) == [api |-> "speech", url |-> Text(<<>>, 0), input |-> input]

\* the body has been read and both provider calls are started together
BodySettleBothCalls(h) ==
    /\ pc[h] = "body"
    /\ LET imageDataUrl == extractImageDataUrl(req[h]) IN
        IF imageDataUrl.kind = "throw" THEN
            /\ Respond(h, InternalServerError)
            /\ stages' = [stages EXCEPT ![h] = Append(@, "respond")]
            /\ UNCHANGED calls
        ELSE IF imageDataUrl.kind = "null" THEN
            /\ Respond(h, TextResponse("Invalid or missing image data", 400))
            /\ stages' = [stages EXCEPT ![h] = Append(@, "respond")]
            /\ UNCHANGED calls
        ELSE
            /\ calls' = [calls EXCEPT ![h] = @ \o <<VisionCall(imageDataUrl.url), SpeechCall(<<>>)>>]
            /\ stages' = [stages EXCEPT ![h] = @ \o <<"vision", "speech">>]
            /\ pc' = [pc EXCEPT ![h] = "vision"]
            /\ UNCHANGED response
    /\ UNCHANGED <<req, decision, description, bucketVars, pureVars, clientVars>>

\* lines 108-139: the body has been read; no image, an error, or the vision call
BodySettle(h) ==
    /\ pc[h] = "body"
    /\ LET imageDataUrl == extractImageDataUrl(req[h]) IN
        IF imageDataUrl.kind = "throw" THEN
            /\ Respond(h, InternalServerError)
            /\ stages' = [stages EXCEPT ![h] = Append(@, "respond")]
            /\ UNCHANGED calls
        ELSE IF imageDataUrl.kind = "null" THEN
            /\ Respond(h, TextResponse("Invalid or missing image data", 400))
            /\ stages' = [stages EXCEPT ![h] = Append(@, "respond")]
            /\ UNCHANGED calls
        ELSE
            /\ calls' = [calls EXCEPT ![h] = Append(@, VisionCall(imageDataUrl.url))]
            /\ stages' = [stages EXCEPT ![h] = Append(@, "vision")]
            /\ pc' = [pc EXCEPT ![h] = "vision"]
            /\ UNCHANGED response
    /\ UNCHANGED <<req, decision, description, bucketVars, pureVars, clientVars>>

\* lines 141-158: the vision call returns; the description is made and spoken
VisionResolve(h, rawContent) ==
    /\ pc[h] = "vision"
    /\ description' = [description EXCEPT ![h] = Describe(rawContent)]
    /\ calls' = [calls EXCEPT ![h] = Append(@, SpeechCall(Describe(rawContent)))]
    /\ stages' = [stages EXCEPT ![h] = Append(@, "speech")]
    /\ pc' = [pc EXCEPT ![h] = "speech"]
    /\ UNCHANGED <<req, decision, response, bucketVars, pureVars, clientVars>>

\* a rejected provider call is issued once more instead of being answered
CaughtRetried(h, at) ==
    /\ pc[h] = at
    /\ IF Len(calls[h]) < 3
       THEN /\ calls' = [calls EXCEPT ![h] = Append(@, @[Len(@)])]
            /\ UNCHANGED <<pc, response, stages>>
       ELSE /\ Respond(h, InternalServerError)
            /\ stages' = [stages EXCEPT ![h] = Append(@, "respond")]
            /\ UNCHANGED calls
    /\ UNCHANGED <<req, decision, description, bucketVars, pureVars, clientVars>>

\* lines 172-175: an awaited call of the try block rejects
Caught(h, at) ==
    /\ pc[h] = at
    /\ Respond(h, InternalServerError)
    /\ stages' = [stages EXCEPT ![h] = Append(@, "respond")]
    /\ UNCHANGED <<req, decision, description, calls, bucketVars, pureVars, clientVars>>

VisionReject(h) == Caught(h, "vision")

SpeechReject(h) == Caught(h, "speech")

\* lines 160-175: the audio has arrived; the response is composed
SpeechResolve(h, audioBuffer) ==
    /\ pc[h] = "speech"
    /\ LET encoded == encodeURIComponent(description[h]) IN
        IF encoded.ok
        THEN Respond(h, AudioResponse(audioBuffer, encoded.str))
        ELSE Respond(h, InternalServerError)
    /\ stages' = [stages EXCEPT ![h] = @ \o <<"compose", "respond">>]
    /\ UNCHANGED <<req, decision, description, calls, bucketVars, pureVars, clientVars>>

\* the invocation is over; a later request is served by a new invocation
Release(h) ==
    /\ pc[h] \in {"responded", "unhandled"}
    /\ pc' = [pc EXCEPT ![h] = "idle"]
    /\ req' = [req EXCEPT ![h] = PlainRequest]
    /\ decision' = [decision EXCEPT ![h] = NoDecision]
    /\ description' = [description EXCEPT ![h] = <<>>]
    /\ calls' = [calls EXCEPT ![h] = <<>>]
    /\ stages' = [stages EXCEPT ![h] = <<>>]
    /\ response' = [response EXCEPT ![h] = NoResponse]
    /\ UNCHANGED <<bucketVars, pureVars, clientVars>>

\* time passes
Tick ==
    /\ elapsed < interval \/ (burst # <<>> /\ burstAge < interval)
    /\ elapsed' = IF elapsed < interval THEN elapsed + TickSec ELSE elapsed
    /\ burstAge' = IF burst # <<>> /\ burstAge < interval THEN burstAge + TickSec ELSE burstAge
    /\ UNCHANGED <<pc, req, decision, description, calls, stages, response,
                   tokens, burst, pureVars, clientVars>>

\* replies of the vision call and audio of the speech call
VisionReplies ==
    { StringContent(<<97, 32, 99, 97, 116>>),
      StringContent(<<32, 233, 32, 55357, 56832, 10>>),
      StringContent(<<>>),
      StringContent(Repeat(97, SliceEnd - 1) \o <<55357, 56832>>),
      ArrayContent(<<Part("text", TRUE, <<97>>), Part("image_url", FALSE, <<>>)>>),
      AbsentContent }

AudioBuffers == { <<73, 68, 51>>, <<>> }

InitSpec == InitServer /\ InitPureIdle /\ InitClientIdle

\* requests of every shape, served one at a time
PostRequest ==
    /\ \A g \in Handlers : pc[g] = "idle"
    /\ \E h \in Handlers, r \in Requests : PostCall(h, r)
GateSettle ==
    \E h \in Handlers :
        \/ ProtectReject(h)
        \/ \E shieldDeny, botDeny, hosting, spoofed \in BOOLEAN :
            ProtectResolve(h, shieldDeny, botDeny, hosting, spoofed)
ExtractSettle == \E h \in Handlers : BodySettle(h)
VisionSettle ==
    \E h \in Handlers : VisionReject(h) \/ \E raw \in VisionReplies : VisionResolve(h, raw)
SpeechSettle ==
    \E h \in Handlers : SpeechReject(h) \/ \E audio \in AudioBuffers : SpeechResolve(h, audio)
Finish == \E h \in Handlers : Release(h)

Next ==
    PostRequest \/ GateSettle \/ ExtractSettle \/ VisionSettle \/ SpeechSettle \/ Finish \/ Tick

Spec == InitSpec /\ [][Next]_vars

\* the limiter under concurrent requests of one client key that no other rule denies
PostPlain == \E h \in Handlers : PostCall(h, PlainRequest)
GatePlain ==
    \E h \in Handlers : ProtectReject(h) \/ ProtectResolve(h, FALSE, FALSE, FALSE, FALSE)
VisionPlain ==
    \E h \in Handlers : VisionReject(h) \/ VisionResolve(h, StringContent(<<97, 32, 99, 97, 116>>))
SpeechPlain ==
    \E h \in Handlers : SpeechReject(h) \/ SpeechResolve(h, <<73, 68, 51>>)

NextGate ==
    PostPlain \/ GatePlain \/ ExtractSettle \/ VisionPlain \/ SpeechPlain \/ Finish \/ Tick

SpecGate == InitSpec /\ [][NextGate]_vars

(***************************************************************************)
(* The page (page.tsx): HomePage.                                          *)
(* audioUrl and audioObjectUrlRef hold a handle (an object URL, numbered   *)
(* from 1 in order of creation) or 0 for null; inputValue holds the id of  *)
(* the selected file or 0 for the empty value.                             *)
(***************************************************************************)
MAX_FILE_SIZE_MB == 10

Attempts == 1..MaxAttempts

ClientFile(id, type, size) == [id |-> id, type |-> type, size |-> size]

\* input.files?.[0] ?? null when the selection is emptied
NoSelection == ClientFile(0, <<>>, 0)

ClientFiles ==
    { NoSelection,
      ClientFile(1, ImagePng, SmallSize),
      ClientFile(2, TextPlain, SmallSize),
      ClientFile(3, ImagePng, MAX_FILE_SIZE_BYTES + 1),
      ClientFile(4, ImagePng, MAX_FILE_SIZE_BYTES) }

\* values of response.headers.get("X-Description-Text"): <<>> stands for null
\* and for the empty value, both falsy
ClientHeaders ==
    { <<>>,
      \* "A%20cat"
      <<65, 37, 50, 48, 99, 97, 116>>,
      \* "%E0%A4%A"
      <<37, 69, 48, 37, 65, 52, 37, 65>> }

NoAttempt == [pc |-> "new", header |-> <<>>]

\* line 19
isBusy == status = "uploading" \/ status = "processing"

InitClient ==
    /\ status = "idle" /\ audioUrl = 0 /\ descriptionText = <<>> /\ errorMessage = ""
    /\ audioObjectUrlRef = 0 /\ inputValue = 0
    /\ attempts = [a \in Attempts |-> NoAttempt]
    /\ liveUrls = {} /\ revokedUrls = {}

\* lines 21-26
resetState ==
    /\ audioUrl' = 0
    /\ descriptionText' = <<>>
    /\ errorMessage' = ""
    /\ status' = "idle"
    /\ UNCHANGED <<audioObjectUrlRef, inputValue, attempts, liveUrls, revokedUrls,
                   serverVars, pureVars>>

\* revokePreviousAudioUrl that releases nothing
revokePreviousAudioUrlSkipped(ref, live) == live

\* lines 28-33: the handles left live by revokePreviousAudioUrl
revokePreviousAudioUrl(ref, live) == IF ref # 0 THEN live \ {ref} ELSE live

\* the next object URL that URL.createObjectURL returns
NewUrl == Cardinality(liveUrls \cup revokedUrls) + 1

\* the message of the error thrown for a non-OK response
ThrownMessage == "Request failed"

GenericError == "Something went wrong while generating the audio description."

\* lines 36-72: the change handler, up to its return or to the fetch
handleFileChange(a, file) ==
    /\ attempts[a].pc = "new"
    /\ \A b \in Attempts : b < a => attempts[b].pc # "new"
    /\ file.id # inputValue
    /\ liveUrls' = revokePreviousAudioUrl(audioObjectUrlRef, liveUrls)
    /\ revokedUrls' = revokedUrls \cup (liveUrls \ liveUrls')
    /\ audioObjectUrlRef' = 0
    /\ audioUrl' = 0
    /\ descriptionText' = <<>>
    /\ IF file = NoSelection THEN
            /\ status' = "idle"
            /\ errorMessage' = ""
            /\ inputValue' = 0
            /\ attempts' = [attempts EXCEPT ![a].pc = "done"]
       ELSE IF ~StartsWith(file.type, ImagePrefix) THEN
            /\ status' = "error"
            /\ errorMessage' = "Please select an image file (PNG, JPG, etc.)."
            /\ inputValue' = 0
            /\ attempts' = [attempts EXCEPT ![a].pc = "done"]
       ELSE IF file.size > MAX_FILE_SIZE_MB * 1024 * 1024 THEN
            /\ status' = "error"
            /\ errorMessage' = "File is too large. Please use an image under 10 MB."
            /\ inputValue' = 0
            /\ attempts' = [attempts EXCEPT ![a].pc = "done"]
       ELSE
            /\ status' = "uploading"
            /\ errorMessage' = ""
            /\ inputValue' = file.id
            /\ attempts' = [attempts EXCEPT ![a].pc = "fetch"]
    /\ UNCHANGED <<serverVars, pureVars>>

\* the catch block without the finally block
CatchNoFinally(a) ==
    /\ liveUrls' = revokePreviousAudioUrl(audioObjectUrlRef, liveUrls)
    /\ revokedUrls' = revokedUrls \cup (liveUrls \ liveUrls')
    /\ audioObjectUrlRef' = 0
    /\ status' = "error"
    /\ errorMessage' = GenericError
    /\ UNCHANGED inputValue
    /\ attempts' = [attempts EXCEPT ![a].pc = "done"]

\* lines 96-105: the catch block and the finally block
CatchAndFinally(a) ==
    /\ liveUrls' = revokePreviousAudioUrl(audioObjectUrlRef, liveUrls)
    /\ revokedUrls' = revokedUrls \cup (liveUrls \ liveUrls')
    /\ audioObjectUrlRef' = 0
    /\ status' = "error"
    /\ errorMessage' = GenericError
    /\ inputValue' = 0
    /\ attempts' = [attempts EXCEPT ![a].pc = "done"]

\* lines 72-83: fetch resolves with a response
FetchResolve(a, ok, header) ==
    /\ attempts[a].pc = "fetch"
    /\ IF ok THEN
            /\ status' = "processing"
            /\ attempts' = [attempts EXCEPT ![a] = [pc |-> "blob", header |-> header]]
            /\ UNCHANGED <<errorMessage, inputValue, audioObjectUrlRef, liveUrls, revokedUrls>>
       ELSE CatchAndFinally(a)
    /\ UNCHANGED <<audioUrl, descriptionText, serverVars, pureVars>>

\* line 72: fetch rejects
FetchReject(a) ==
    /\ attempts[a].pc = "fetch"
    /\ CatchAndFinally(a)
    /\ UNCHANGED <<audioUrl, descriptionText, serverVars, pureVars>>

\* line 83: response.blob() rejects
BlobReject(a) ==
    /\ attempts[a].pc = "blob"
    /\ CatchAndFinally(a)
    /\ UNCHANGED <<audioUrl, descriptionText, serverVars, pureVars>>

\* lines 83-105: the body has arrived
BlobResolve(a) ==
    /\ attempts[a].pc = "blob"
    /\ LET url == NewUrl
           kept == revokePreviousAudioUrl(audioObjectUrlRef, liveUrls \cup {url})
           descriptionHeader == attempts[a].header
           decoded == decodeURIComponent(descriptionHeader)
       IN  /\ audioUrl' = url
           /\ attempts' = [attempts EXCEPT ![a].pc = "done"]
           /\ inputValue' = 0
           /\ IF descriptionHeader # <<>> /\ ~decoded.ok THEN
                \* decodeURIComponent throws: catch, with the ref at the new url
                /\ liveUrls' = revokePreviousAudioUrl(url, kept)
                /\ revokedUrls' = revokedUrls \cup ((liveUrls \cup {url}) \ liveUrls')
                /\ audioObjectUrlRef' = 0
                /\ status' = "error"
                /\ errorMessage' = GenericError
                /\ UNCHANGED descriptionText
              ELSE
                /\ liveUrls' = kept
                /\ revokedUrls' = revokedUrls \cup ((liveUrls \cup {url}) \ kept)
                /\ audioObjectUrlRef' = url
                /\ descriptionText' = IF descriptionHeader # <<>> /\ decoded.str # <<>>
                                      THEN decoded.str ELSE descriptionText
                /\ status' = "done"
                /\ UNCHANGED errorMessage
    /\ UNCHANGED <<serverVars, pureVars>>

\* the user picks a file through the button (lines 160-167, disabled while
\* busy) or through the label or the input itself (lines 130-152)
ChooseViaButton == ~isBusy /\ \E a \in Attempts, f \in ClientFiles : handleFileChange(a, f)
ChooseViaLabel == \E a \in Attempts, f \in ClientFiles : handleFileChange(a, f)
FetchSettle ==
    \E a \in Attempts :
        FetchReject(a) \/ \E ok \in BOOLEAN, header \in ClientHeaders : FetchResolve(a, ok, header)
BlobSettle == \E a \in Attempts : BlobReject(a) \/ BlobResolve(a)
\* line 214
ClickReset == resetState

NextClient == ChooseViaButton \/ ChooseViaLabel \/ FetchSettle \/ BlobSettle \/ ClickReset

InitSpecClient == InitClient /\ InitServerIdle /\ InitPureIdle

SpecClient == InitSpecClient /\ [][NextClient]_vars

(***************************************************************************)
(* Properties of the server.                                               *)
(***************************************************************************)
Range(seq) == {seq[i] : i \in 1..Len(seq)}

\* aj.protect has resolved for handler h
Evaluated(h) == pc[h] \in {"body", "vision", "speech", "responded"}

\* the admission gate rejects a decision: denied, hosting IP, or spoofed bot
Rejects(d) == d.denied \/ d.hosting \/ d.spoofed

\* the gate let handler h pass
Admitted(h) == Evaluated(h) /\ ~Rejects(decision[h])

\* extractImageDataUrl has returned or thrown in handler h
Extracted(h) == "extract" \in Range(stages[h]) /\ pc[h] # "body"

\* C1: a request the admission gate rejects (denied, hosting IP or spoofed bot)
\* is answered without the payload extractor, the vision call or the speech
\* call being invoked: no image, description or audio is made for it.
C1_NoInferenceOnDenial ==
    \A h \in Handlers :
        (Evaluated(h) /\ Rejects(decision[h])) =>
            /\ pc[h] = "responded"
            /\ calls[h] = <<>>
            /\ description[h] = <<>>
            /\ stages[h] = <<"gate", "respond">>
            /\ response[h].body.kind # "bytes"

C1_Witness ==
    \E h \in Handlers :
        /\ pc[h] = "responded"
        /\ ~decision[h].denied /\ decision[h].hosting
        /\ response[h].status = 403

\* C2: a rate-limit denial is answered 429, a bot denial 403 "No bots allowed",
\* any other denial, a hosting IP and a spoofed bot a generic 403 "Forbidden";
\* a rejected request is never answered 200, 400 or 500.
C2_GateStatus ==
    \A h \in Handlers :
        (Evaluated(h) /\ Rejects(decision[h])) =>
            LET d == decision[h]
                r == response[h]
                generic == r.status = 403 /\ r.body.text = "Forbidden"
            IN  /\ (d.denied /\ d.reason = "RATE_LIMIT") =>
                        (r.status = 429 /\ r.body.text = "Too Many Requests")
                /\ (d.denied /\ d.reason = "BOT") =>
                        (r.status = 403 /\ r.body.text = "No bots allowed")
                /\ (d.denied /\ d.reason \notin {"RATE_LIMIT", "BOT"}) => generic
                /\ (~d.denied /\ d.hosting) => generic
                /\ (~d.denied /\ d.spoofed) => generic
                /\ r.status \in {403, 429}

C2_Witness ==
    /\ \E h \in Handlers :
        /\ pc[h] = "responded" /\ decision[h].denied
        /\ decision[h].reason = "RATE_LIMIT" /\ response[h].status = 429
        /\ decision[h].hosting

PayloadBytes(r) ==
    IF StartsWith(r.contentType, MultipartPrefix)
    THEN (IF r.body.kind = "form" /\ r.body.file.kind = "file" THEN r.body.file.size ELSE 0)
    ELSE (IF r.body.kind = "json" /\ r.body.imageBase64.kind = "string"
          THEN Base64Bytes(r.body.imageBase64.text.payloadLen) ELSE 0)

\* C4: a request whose image exceeds 10 MiB, on the multipart or on the JSON
\* path, is rejected before any vision or speech call.
C4_OversizeNeverInferred ==
    \A h \in Handlers :
        (pc[h] # "idle" /\ PayloadBytes(req[h]) > 10 * 1024 * 1024) => calls[h] = <<>>

\* x has the form data:image/<subtype>;base64,<payload>
IsImageDataUrl(x) ==
    /\ TextStartsWith(x, DataImagePrefix \o <<47>>)
    /\ \E i \in (Len(DataImagePrefix) + 2)..(Len(x.head) - Len(Base64Marker) + 1) :
        SubSeq(x.head, i, i + Len(Base64Marker) - 1) = Base64Marker

\* C5: an admitted non-multipart request whose body is not JSON, whose
\* imageBase64 is missing or no string, or is no data:image/...;base64,... URL
\* is answered 400 without any provider call.
C5_MalformedJsonRejected ==
    \A h \in Handlers :
        ( /\ Admitted(h) /\ Extracted(h)
          /\ ~StartsWith(req[h].contentType, MultipartPrefix)
          /\ \/ req[h].body.kind # "json"
             \/ req[h].body.imageBase64.kind # "string"
             \/ ~IsImageDataUrl(req[h].body.imageBase64.text) )
        => (pc[h] = "responded" /\ response[h].status = 400 /\ calls[h] = <<>>)

\* C6: an admitted multipart request whose `file` field is absent, is no file,
\* or declares a type that does not start with "image/" is answered 400 by the
\* extractor's no-image result, without any provider call.
C6_MultipartRejectedAtExtractor ==
    \A h \in Handlers :
        ( /\ Admitted(h) /\ Extracted(h)
          /\ StartsWith(req[h].contentType, MultipartPrefix)
          /\ req[h].body.kind = "form"
          /\ \/ req[h].body.file.kind # "file"
             \/ ~StartsWith(req[h].body.file.type, ImagePrefix) )
        => /\ pc[h] = "responded"
           /\ response[h].status = 400
           /\ response[h].body.text = "Invalid or missing image data"
           /\ calls[h] = <<>>
           /\ stages[h] = <<"gate", "extract", "respond">>

C6_Witness ==
    \E h \in Handlers :
        /\ pc[h] = "responded" /\ response[h].status = 400
        /\ req[h].body.kind = "form" /\ req[h].body.file.kind = "file"
        /\ req[h].body.file.type = TextPlain

\* C7: an admitted request with a valid image for which both provider calls
\* return is answered 200 with the audio as body, Content-Type audio/mpeg,
\* Cache-Control no-store and an X-Description-Text header whose
\* percent-decoding is the description given to the speech call.
C7_SuccessResponse ==
    \A h \in Handlers :
        (Admitted(h) /\ "compose" \in Range(stages[h])) =>
            LET r == response[h] IN
            /\ r.status = 200
            /\ r.body.kind = "bytes"
            /\ r.headers.ContentType = "audio/mpeg"
            /\ r.headers.CacheControl = "no-store"
            /\ "XDescriptionText" \in DOMAIN r.headers
            /\ r.headers.XDescriptionText # <<>>
            /\ decodeURIComponent(r.headers.XDescriptionText) =
                   [ok |-> TRUE, str |-> calls[h][2].input]

\* C9: no error raised while a request is handled leaves POST unhandled; every
\* request that has been answered has status 200, 400, 403, 429 or 500.
C9_NoUnhandledError ==
    \A h \in Handlers :
        /\ pc[h] # "unhandled"
        /\ pc[h] = "responded" => response[h].status \in {200, 400, 403, 429, 500}

\* position of a stage in the pipeline
Rank(stage) ==
    CASE stage = "gate" -> 1 [] stage = "extract" -> 2 [] stage = "vision" -> 3
      [] stage = "speech" -> 4 [] stage = "compose" -> 5 [] stage = "respond" -> 6

\* C14: within one request the stages run in the order gate, extraction,
\* vision call, speech call, response, none twice; the speech call is made
\* only after the vision call has returned, with the description made from its
\* reply, and each provider is called at most once.
C14_StagesInSequence ==
    \A h \in Handlers :
        LET s == stages[h]
            c == calls[h]
        IN  /\ \A i \in 1..(Len(s) - 1) : Rank(s[i]) < Rank(s[i + 1])
            /\ s # <<>> => s[1] = "gate"
            /\ "vision" \in Range(s) => "extract" \in Range(s)
            /\ "speech" \in Range(s) => "vision" \in Range(s)
            /\ Len(c) <= 2
            /\ Len(c) >= 1 => (c[1].api = "vision" /\ "vision" \in Range(s))
            /\ Len(c) = 2 => /\ c[2].api = "speech"
                              /\ "speech" \in Range(s)
                              /\ pc[h] # "vision"
                              /\ c[2].input = description[h]
                              /\ description[h] # <<>>
            /\ pc[h] = "vision" => Len(c) = 1
            /\ pc[h] = "speech" => Len(c) = 2

C14_Witness ==
    \E h \in Handlers :
        /\ pc[h] = "responded" /\ response[h].status = 200
        /\ stages[h] = <<"gate", "extract", "vision", "speech", "compose", "respond">>
        /\ Len(calls[h]) = 2

\* the vision call of handler h threw
VisionThrew(h) ==
    pc[h] = "responded" /\ stages[h] = <<"gate", "extract", "vision", "respond">>

\* the speech call of handler h threw
SpeechThrew(h) ==
    pc[h] = "responded" /\ stages[h] = <<"gate", "extract", "vision", "speech", "respond">>

\* C15: a request whose vision call or speech call throws is answered 500
\* "Internal Server Error" with no description header; after a failed vision
\* call there is no speech call, and the failed call is not made again.
C15_ProviderFailureIs500 ==
    \A h \in Handlers :
        /\ (pc[h] \in {"vision", "speech"}) => response[h] = NoResponse
        /\ (VisionThrew(h) \/ SpeechThrew(h)) =>
              /\ response[h].status = 500
              /\ response[h].body.text = "Internal Server Error"
              /\ "XDescriptionText" \notin DOMAIN response[h].headers
        /\ VisionThrew(h) =>
              (Len(calls[h]) = 1 /\ calls[h][1].api = "vision" /\ description[h] = <<>>)
        /\ SpeechThrew(h) =>
              (Len(calls[h]) = 2 /\ calls[h][1].api = "vision" /\ calls[h][2].api = "speech")

C15_Witness ==
    \E h \in Handlers : SpeechThrew(h) /\ response[h].status = 500 /\ Len(calls[h]) = 2

\* C19: a multipart upload whose file declares an empty MIME type is not
\* rejected: it is passed to the vision call as a data URL of type image/png.
C19_EmptyTypeDefaultsToPng ==
    \A h \in Handlers :
        ( /\ Admitted(h) /\ Extracted(h)
          /\ StartsWith(req[h].contentType, MultipartPrefix)
          /\ req[h].body.kind = "form"
          /\ req[h].body.file.kind = "file"
          /\ req[h].body.file.type = <<>>
          /\ req[h].body.file.size <= MAX_FILE_SIZE_BYTES )
        => /\ calls[h] # <<>>
           /\ calls[h][1].url = PngDataUrl(req[h].body.file.size)

(***************************************************************************)
(* Properties of the description.                                          *)
(***************************************************************************)
\* indices of the code units of s that are not white space
Inked(s) == {i \in 1..Len(s) : ~IsWhiteSpace(s[i])}

Least(S) == CHOOSE x \in S : \A y \in S : x <= y
Greatest(S) == CHOOSE x \in S : \A y \in S : x >= y

\* C8: the description is the first 800 code units of the reply's text between
\* its first and last non-white-space code units, or "No description
\* available." when there is none; it is never empty nor longer than 800, a
\* reply of 1000 trimmed code units gives exactly 800, and the header decodes
\* to it.
C8_DescriptionNormalised ==
    (nPc \notin {"off", "reply"}) =>
        LET t == ContentText(nRaw)
            d == nDescription
        IN  /\ d # <<>>
            /\ Len(d) <= 800
            /\ IF Inked(t) = {}
               THEN d = <<78, 111, 32, 100, 101, 115, 99, 114, 105, 112, 116, 105, 111, 110,
                          32, 97, 118, 97, 105, 108, 97, 98, 108, 101, 46>>
               ELSE LET first == Least(Inked(t))
                        last == Greatest(Inked(t))
                    IN  /\ Len(d) = Min(800, last - first + 1)
                        /\ \A k \in 1..Len(d) : d[k] = t[first + k - 1]
                        /\ (last - first + 1 = 1000) => Len(d) = 800
            /\ nPc = "shown" => nDecoded = d

C8_Witness ==
    /\ nPc = "shown"
    /\ Len(nDescription) = 800
    /\ Len(ContentText(nRaw)) > 1000
    /\ IsWhiteSpace(ContentText(nRaw)[1])

\* C18: the description has neither leading nor trailing white space, whatever
\* the reply, replies longer than 800 code units included.
C18_DescriptionTrimmed ==
    (nPc \notin {"off", "reply"}) =>
        /\ nDescription # <<>>
        /\ ~IsWhiteSpace(nDescription[1])
        /\ ~IsWhiteSpace(nDescription[Len(nDescription)])

(***************************************************************************)
(* Properties of the page.                                                 *)
(***************************************************************************)
\* C10: after any sequence of selections, completions, failures and resets at
\* most one audio object URL is live; every handle created before a live one
\* has been revoked, so the handle shown to the UI is the only live one.
C10_OneLiveHandle ==
    /\ Cardinality(liveUrls) <= 1
    /\ \A u \in liveUrls : \A v \in 1..(u - 1) : v \in revokedUrls
    /\ (audioUrl # 0 /\ liveUrls # {}) => liveUrls = {audioUrl}

C10_Witness ==
    /\ status = "done"
    /\ audioUrl = 2 /\ liveUrls = {2} /\ revokedUrls = {1}
    /\ \E a \in Attempts : attempts[a].pc = "blob"

\* attempt a is between its fetch and its last statement
InFlight(a) == attempts[a].pc \in {"fetch", "blob"}

\* this step runs handleFileChange up to its return or to the fetch
Selects(a) == attempts[a].pc = "new" /\ attempts'[a].pc # "new"

\* this step is a click on Reset
Resets == resetState /\ UNCHANGED attempts

\* C11: a reset performed while a handle is live releases it: no handle is
\* live once the reset has completed.
C11_ResetRevokes == [][Resets => liveUrls' = {}]_vars

\* C12: the status changes only along idle -> uploading, uploading ->
\* processing, processing -> done, uploading -> error, processing -> error and
\* idle -> error, or by a new selection or a reset; processing is entered only
\* from uploading and done only from processing, whatever was selected or reset
\* while the request was in flight.
C12_StatusTransitions ==
    [][ status' # status =>
          /\ \/ <<status, status'>> \in { <<"idle", "uploading">>,
                                            <<"uploading", "processing">>,
                                            <<"processing", "done">>,
                                            <<"uploading", "error">>,
                                            <<"processing", "error">>,
                                            <<"idle", "error">> }
              \/ \E a \in Attempts : Selects(a)
              \/ Resets
          /\ status' = "processing" => status = "uploading"
          /\ status' = "done" => status = "processing" ]_vars

\* C13: every step that ends a selection attempt, whether validation failed,
\* the request failed or the audio arrived, leaves the file input's value empty.
C13_InputCleared ==
    [][ \A a \in Attempts :
            (attempts[a].pc # "done" /\ attempts'[a].pc = "done") => inputValue' = 0 ]_vars

C13_Witness ==
    /\ status = "error" /\ errorMessage = GenericError
    /\ inputValue = 0
    /\ attempts[1].pc = "done"
    /\ attempts[2].pc = "new"

\* C16: while an upload request is in flight the trigger control is disabled,
\* and at most one request is in flight, whatever was selected or reset.
C16_BusyWhileInFlight ==
    /\ (\E a \in Attempts : InFlight(a)) => isBusy
    /\ Cardinality({a \in Attempts : InFlight(a)}) <= 1

\* this step ends attempt a with an error thrown in its try block: fetch or
\* blob rejected, the response was not OK, or the header could not be decoded
Throws(a) ==
    \/ FetchReject(a)
    \/ BlobReject(a)
    \/ \E header \in ClientHeaders : FetchResolve(a, FALSE, header)
    \/ /\ BlobResolve(a)
       /\ attempts[a].header # <<>>
       /\ ~decodeURIComponent(attempts[a].header).ok

\* C17: every step in which an upload attempt throws ends in the Error
\* status with the generic message, no audio handle being live any more.
C17_ErrorsFunnel ==
    [][ \A a \in Attempts :
            Throws(a) => /\ status' = "error"
                         /\ errorMessage' = "Something went wrong while generating the audio description."
                         /\ liveUrls' = {}
                         /\ audioObjectUrlRef' = 0 ]_vars

C17_Witness ==
    /\ status = "error" /\ errorMessage = "Something went wrong while generating the audio description."
    /\ liveUrls = {} /\ revokedUrls = {1}
    /\ attempts[1].pc = "done" /\ attempts[1].header # <<>>
    /\ attempts[2].pc = "new"

\* C20: whenever audioUrl is set, the handle it names is live.
C20_ExposedUrlIsLive == audioUrl # 0 => audioUrl \in liveUrls

====
